---------------------------- MODULE Spec2Model ----------------------------
(***************************************************************************)
(* Model of deepinv's AccelerationMaskGenerator                            *)
(* (deepinv/physics/generator/mri.py) and of the Haze forward operator     *)
(* (deepinv/diffops/physics/haze.py).                                      *)
(*                                                                         *)
(* A tensor is a function over 0-based index ranges, nested in the order   *)
(* of its axes: a (B, H, W) tensor t is read t[b][h][w].                   *)
(***************************************************************************)
EXTENDS Integers, Sequences, FiniteSets, TLC

VARIABLES
    img_size,       \* self.img_size: the tuple given to __init__
    acceleration,   \* self.acceleration
    pc,             \* "idle" | "returned" | "raised": how the last step() ended
    batch_size,     \* argument of the last step() call (0 before any call)
    result,         \* the mapping the last step() returned (empty if none)
    raised,         \* the exception the last step() ended with (NoException if none)
    reached,        \* the stages of step() the last call went through
    drawn,          \* the arrays np.random.choice returned during the last call
    beta,           \* Haze: self.beta
    hz_pc,          \* Haze: "idle" | "A" | "A_adjoint", the call that last returned
    hz_arg,         \* Haze: the argument of that call
    hz_ret,         \* Haze: what that call returned
    a_called        \* Haze: whether A has been called on this operator before

mri_vars == <<img_size, acceleration, pc, batch_size, result, raised, reached, drawn>>
haze_vars == <<beta, hz_pc, hz_arg, hz_ret, a_called>>
vars == <<mri_vars, haze_vars>>

---------------------------------------------------------------------------
(* Bounds of the model. *)

\* Heights and widths 1..MaxH are all enumerated.
MaxH == 4
\* step() is called with batch_size in 1..MaxBatch.
MaxBatch == 2

\* Sizes beyond the small square: the docstring's example, a grid taller than
\* wide on which a random line can fall outside the width, and wide grids on
\* which two random lines are drawn per batch element.
ExtraSizes == {<<16, 16>>, <<13, 12>>, <<1, 24>>, <<2, 24>>, <<3, 24>>}

SmallSizes == {<<h, w>> : h \in 1..MaxH, w \in 1..MaxH}

\* Channel counts used for the 3-element form (C, H, W).
Channels == {1, 3}

ImgSizes ==
    SmallSizes \cup ExtraSizes
    \cup {<<c, s[1], s[2]>> : c \in Channels, s \in SmallSizes \cup {<<3, 24>>}}
    \cup {<<16>>, <<1, 2, 16, 16>>}

Accelerations == {2, 4, 8}

---------------------------------------------------------------------------
(* Python and torch primitives. *)

\* int(x) and the conversion of a double to int64: truncation toward zero,
\* here of the fraction n / d with d > 0.
Trunc(n, d) == IF n >= 0 THEN n \div d ELSE -((-n) \div d)

\* torch's bounds check of an index into an axis of length n, and the
\* position a (possibly negative) valid index denotes.
IndexValid(i, n) == -n <= i /\ i < n
Normalize(i, n) == IF i < 0 THEN i + n ELSE i

NoException == [type |-> "none", by |-> "none"]
NoResult == [key \in {} |-> 0]

---------------------------------------------------------------------------
(* step(): lines 46-52, the shape. *)

\* Mutation of ShapeOf: a tuple of another length is read by its last
\* elements instead of being rejected.
ShapeOfLenient(sz) ==
    IF Len(sz) = 2 THEN [ok |-> TRUE, C |-> 2, H |-> sz[1], W |-> sz[2]]
    ELSE IF Len(sz) = 3 THEN [ok |-> TRUE, C |-> sz[1], H |-> sz[2], W |-> sz[3]]
    ELSE [ok |-> TRUE, C |-> 2, H |-> sz[Len(sz)], W |-> sz[Len(sz)]]

ShapeOf(sz) ==
    IF Len(sz) = 2 THEN [ok |-> TRUE, C |-> 2, H |-> sz[1], W |-> sz[2]]
    ELSE IF Len(sz) = 3 THEN [ok |-> TRUE, C |-> sz[1], H |-> sz[2], W |-> sz[3]]
    ELSE [ok |-> FALSE, C |-> 0, H |-> 0, W |-> 0]

(* step(): lines 54-65, the density parameters.  The percentages are kept  *)
(* in thousandths: 0.08 and 0.04 for the center, 0.25 - 0.08 and           *)
(* 0.125 - 0.04 for the sides.  int(percent * W) in double arithmetic      *)
(* equals the integer quotient below for every W < 300.                    *)
DensityDefined(acc) == acc \in {4, 8}

CentralLinesPermille(acc) == IF acc = 4 THEN 80 ELSE 40
SideLinesPermille(acc) == IF acc = 4 THEN 250 - 80 ELSE 125 - 40

NumLinesCenter(acc, W) == Trunc(CentralLinesPermille(acc) * W, 1000)
NumLinesSide(acc, W) == Trunc(SideLinesPermille(acc) * W, 1000)

(* step(): lines 69-74, torch.linspace(start, end, steps=50, dtype=long).  *)
(* The kernel computes step = (end - start) / (steps - 1) and element idx  *)
(* as start + step * idx in the first half, end - step * (steps - idx - 1) *)
(* in the second half, each converted to int64 by truncation.              *)
Steps == 50

\* Mutation of LinspaceLong: the end point is left out (the spacing is
\* (end - start) / steps).
LinspaceLongOpen(start, end, idx) ==
    Trunc(Steps * start + (end - start) * idx, Steps)

LinspaceLong(start, end, idx) ==
    IF idx < Steps \div 2
    THEN Trunc((Steps - 1) * start + (end - start) * idx, Steps - 1)
    ELSE Trunc((Steps - 1) * end - (end - start) * (Steps - idx - 1), Steps - 1)

CenterStart(H, nlc) == H \div 2 - nlc \div 2
CenterEnd(H, nlc) == H \div 2 + nlc \div 2 + 1

CenterLineIndices(H, nlc) ==
    [n \in 1..Steps |-> LinspaceLong(CenterStart(H, nlc), CenterEnd(H, nlc), n - 1)]

(* step(): line 67, torch.zeros((batch_size, H, W)). *)
Zeros(B, H, W) == [b \in 0..(B-1) |-> [h \in 0..(H-1) |-> [w \in 0..(W-1) |-> 0]]]

\* The axis of the (B, H, W) mask that an index array in the third position
\* of mask[., :, idx] addresses, and its length.
LineAxisLen(H, W) == W

\* Elements of a sequence, as a set.
Range(s) == {s[n] : n \in DOMAIN s}

(* step(): line 75, mask[:, :, center_line_indices] = 1. *)
AssignAll(mask, idx, H, W) ==
    LET cols == {Normalize(i, LineAxisLen(H, W)) : i \in Range(idx)} IN
    [b \in DOMAIN mask |->
        [h \in DOMAIN mask[b] |->
            [w \in DOMAIN mask[b][h] |->
                IF w \in cols THEN 1 ELSE mask[b][h][w]]]]

\* Mutation of AssignOne: the indices address the H axis, mask[i, idx, :] = 1.
AssignOneRows(mask, i, idx, H, W) ==
    [mask EXCEPT ![i] =
        [h \in DOMAIN mask[i] |->
            [w \in DOMAIN mask[i][h] |->
                IF h \in Range(idx) THEN 1 ELSE mask[i][h][w]]]]

\* Mutation of AssignOne: the lines are written to every batch element,
\* mask[:, :, idx] = 1.
AssignOneEveryElement(mask, i, idx, H, W) == AssignAll(mask, idx, H, W)

(* step(): line 81, mask[i, :, random_line_indices] = 1. *)
AssignOne(mask, i, idx, H, W) ==
    LET cols == {Normalize(j, LineAxisLen(H, W)) : j \in Range(idx)} IN
    [mask EXCEPT ![i] =
        [h \in DOMAIN mask[i] |->
            [w \in DOMAIN mask[i][h] |->
                IF w \in cols THEN 1 ELSE mask[i][h][w]]]]

AllValid(idx, H, W) == \A i \in Range(idx) : IndexValid(i, LineAxisLen(H, W))

(* step(): lines 78-80, np.random.choice(H, size=(k,), replace=False):     *)
(* the arrays it can return, none when it raises (k > H).                  *)
RandomChoice(H, k) ==
    IF k > H THEN {}
    ELSE {s \in [1..k -> 0..(H-1)] : \A m, n \in 1..k : m # n => s[m] # s[n]}

(* step(): line 83, torch.cat([mask.float().unsqueeze(1)] * C, dim=1). *)
CatChannels(mask, C) == [b \in DOMAIN mask |-> [c \in 0..(C-1) |-> mask[b]]]

(* step(): lines 77-81, the loop over the batch, run on the draws `all`    *)
(* (one array per batch element): the number of iterations that complete   *)
(* before an index is out of range, and the mask after n iterations.       *)
FirstBad(all, H, W) ==
    LET bad == {n \in DOMAIN all : ~AllValid(all[n], H, W)} IN
    IF bad = {} THEN 0 ELSE CHOOSE n \in bad : \A m \in bad : n <= m

RECURSIVE AfterDraws(_, _, _, _, _)
AfterDraws(mask, all, n, H, W) ==
    IF n = 0 THEN mask
    ELSE AssignOne(AfterDraws(mask, all, n - 1, H, W), n - 1, all[n], H, W)

---------------------------------------------------------------------------
(* __init__ (lines 31-35) stores its arguments unchecked. *)
NoHaze ==
    /\ beta = 0
    /\ hz_pc = "idle"
    /\ hz_arg = <<>>
    /\ hz_ret = <<>>
    /\ a_called = FALSE

InitMRI ==
    /\ NoHaze
    /\ img_size \in ImgSizes
    /\ acceleration \in Accelerations
    /\ pc = "idle"
    /\ batch_size = 0
    /\ result = NoResult
    /\ raised = NoException
    /\ reached = {}
    /\ drawn = <<>>

Raise(bs, type, by, stages, draws) ==
    /\ pc' = "raised"
    /\ batch_size' = bs
    /\ result' = NoResult
    /\ raised' = [type |-> type, by |-> by]
    /\ reached' = stages
    /\ drawn' = draws
    /\ UNCHANGED <<img_size, acceleration, haze_vars>>

Return(bs, mask, stages, draws) ==
    /\ pc' = "returned"
    /\ batch_size' = bs
    /\ result' = [key \in {"mask"} |-> mask]
    /\ raised' = NoException
    /\ reached' = stages
    /\ drawn' = draws
    /\ UNCHANGED <<img_size, acceleration, haze_vars>>

(* step(batch_size), lines 37-83.  step() reads only the configuration;  *)
(* it is called once the caller has taken the previous outcome (Consume). *)
Step(bs) ==
    /\ pc = "idle"
    /\ LET s == ShapeOf(img_size) IN
       IF ~s.ok
       THEN Raise(bs, "ValueError", "generator", {}, <<>>)
       ELSE IF ~DensityDefined(acceleration)
       THEN \* line 67 runs, then line 70 reads num_lines_center, which is unbound
            Raise(bs, "UnboundLocalError", "python", {"shape", "zeros"}, <<>>)
       ELSE
       LET nlc == NumLinesCenter(acceleration, s.W)
           nls == NumLinesSide(acceleration, s.W)
           k == nls \div 2
           center == CenterLineIndices(s.H, nlc)
           mask0 == Zeros(bs, s.H, s.W)
       IN
       IF ~AllValid(center, s.H, s.W)
       THEN Raise(bs, "IndexError", "torch",
                  {"shape", "density", "zeros", "linspace"}, <<>>)
       ELSE
       LET mask1 == AssignAll(mask0, center, s.H, s.W) IN
       IF RandomChoice(s.H, k) = {}
       THEN Raise(bs, "ValueError", "numpy",
                  {"shape", "density", "zeros", "linspace", "center", "choice"}, <<>>)
       ELSE
       \E all \in [1..bs -> RandomChoice(s.H, k)] :
           LET bad == FirstBad(all, s.H, s.W) IN
           IF bad # 0
           THEN Raise(bs, "IndexError", "torch",
                      {"shape", "density", "zeros", "linspace", "center", "choice"},
                      SubSeq(all, 1, bad))
           ELSE Return(bs, CatChannels(AfterDraws(mask1, all, bs, s.H, s.W), s.C),
                       {"shape", "density", "zeros", "linspace", "center", "choice", "cat"},
                       all)

(* The caller takes the outcome of step(): the mask is owned by the caller *)
(* and the generator keeps nothing of the call (no attribute is written).  *)
Consume ==
    /\ pc # "idle"
    /\ pc' = "idle"
    /\ batch_size' = 0
    /\ result' = NoResult
    /\ raised' = NoException
    /\ reached' = {}
    /\ drawn' = <<>>
    /\ UNCHANGED <<img_size, acceleration, haze_vars>>

NextMRI ==
    \/ \E bs \in 1..MaxBatch : Step(bs)
    \/ Consume

SpecMRI == InitMRI /\ [][NextMRI]_vars

---------------------------------------------------------------------------
(* Haze (deepinv/diffops/physics/haze.py) on float16 tensors.              *)
(*                                                                         *)
(* A finite float16 value x is held as the integer x * 2^24: every finite  *)
(* float16 is a multiple of 2^-24, the spacing of the subnormals.  The     *)
(* model's values stay below 64 in magnitude, so the integers stay below   *)
(* 2^30.  Every tensor operation rounds its exact result to the nearest    *)
(* float16, ties to even.                                                  *)

\* Each dimension of a Haze tensor is in 1..MaxDim, and a tensor has at most
\* MaxPixels elements.
MaxDim == 2
MaxPixels == 8

RECURSIVE Pow2(_)
Pow2(k) == IF k = 0 THEN 1 ELSE 2 * Pow2(k - 1)

RECURSIVE FloorLog2(_)
FloorLog2(n) == IF n < 2 THEN 0 ELSE 1 + FloorLog2(n \div 2)

Abs(n) == IF n < 0 THEN -n ELSE n
Sign(n) == IF n < 0 THEN -1 ELSE 1

\* The float16 value m * 2^e.
F16(m, e) == m * Pow2(e + 24)
One == F16(1, 0)

\* p / q rounded to the nearest integer, ties to even (p >= 0, q > 0).
RoundNearestEven(p, q) ==
    LET f == p \div q
        r == p % q
    IN IF 2 * r < q THEN f
       ELSE IF 2 * r > q THEN f + 1
       ELSE IF f % 2 = 0 THEN f ELSE f + 1

\* The exponent of the float16 spacing around a value whose leading bit is
\* at position e (in units of 2^-24): 11 significant bits, never finer than
\* one unit.
Spacing(e) == IF e > 10 THEN e - 10 ELSE 0

\* P * 2^sh (P >= 0, in units of 2^-24) rounded to float16.
RoundF16(P, sh) ==
    IF P = 0 THEN 0
    ELSE LET g == Spacing(FloorLog2(P) + sh) IN
         IF sh >= g THEN P * Pow2(sh)
         ELSE RoundNearestEven(P, Pow2(g - sh)) * Pow2(g)

\* A float16 as significand * 2^exponent, the significand below 2^11.
SigExp(n) == Spacing(FloorLog2(n))
Sig(n) == n \div Pow2(SigExp(n))

(* The float16 kernels of *, + and - (the exact result, rounded once). *)
MulF16(a, b) ==
    Sign(a) * Sign(b)
    * RoundF16(Sig(Abs(a)) * Sig(Abs(b)), SigExp(Abs(a)) + SigExp(Abs(b)) - 24)

AddF16(a, b) == Sign(a + b) * RoundF16(Abs(a + b), 0)
SubF16(a, b) == AddF16(a, -b)

(* torch.exp on float16, for the arguments -j/2, j = 0, 1, 2, ...: exp(-j/2) *)
(* rounded to float16, entry j + 1 of the table; it is 0 from j = 35 on     *)
(* (exp(-17.5) is below half the smallest subnormal, 2^-25).                *)
ExpTable ==
    << 16777216, 10174464, 6172672, 3743744, 2271232, 1377280, 835072,
       506624, 307200, 186368, 113024, 68544, 41600, 25216, 15296, 9280,
       5628, 3414, 2070, 1256, 762, 462, 280, 170, 103, 63, 38, 23, 14, 8,
       5, 3, 2, 1, 1 >>

ExpF16(x) ==
    LET j == (-x) \div F16(1, -1) IN
    IF j >= Len(ExpTable) THEN 0 ELSE ExpTable[j + 1]

\* y.shape of a 4-axis tensor.
ShapeOfTensor(y) ==
    << Cardinality(DOMAIN y), Cardinality(DOMAIN y[0]),
       Cardinality(DOMAIN y[0][0]), Cardinality(DOMAIN y[0][0][0]) >>

\* Broadcasting of an operand to position (b, c, h, w): its axes of length 1
\* are repeated.  A scalar operand is held as a tensor of shape (1, 1, 1, 1).
Bc(n, dom) == IF Cardinality(dom) = 1 THEN 0 ELSE n
At(v, b, c, h, w) ==
    LET b1 == Bc(b, DOMAIN v)
        c1 == Bc(c, DOMAIN v[b1])
        h1 == Bc(h, DOMAIN v[b1][c1])
        w1 == Bc(w, DOMAIN v[b1][c1][h1])
    IN v[b1][c1][h1][w1]

(* Haze.A, lines 15-16, at one element: t = torch.exp(-self.beta*d) and   *)
(* y = t*im + (1-t)*A.                                                     *)
Transmittance(self_beta, d) == ExpF16(MulF16(-self_beta, d))

\* Mutation of Blend: the weights of image and light are exchanged.
BlendExchanged(t, im, al) == AddF16(MulF16(t, al), MulF16(SubF16(One, t), im))

Blend(t, im, al) == AddF16(MulF16(t, im), MulF16(SubF16(One, t), al))

(* Haze.A, lines 10-17. *)
A(self_beta, x) ==
    LET im == x[1]
        d == x[2]
        al == x[3]
    IN [b \in DOMAIN im |-> [c \in DOMAIN im[b] |-> [h \in DOMAIN im[b][c] |->
           [w \in DOMAIN im[b][c][h] |->
               Blend(Transmittance(self_beta, At(d, b, c, h, w)),
                     im[b][c][h][w], At(al, b, c, h, w))]]]]

(* torch.ones((b, c, h, w)). *)
Ones(b, c, h, w) ==
    [i \in 0..(b-1) |-> [j \in 0..(c-1) |-> [k \in 0..(h-1) |-> [l \in 0..(w-1) |-> One]]]]

\* Mutation of A_adjoint: the depth seed takes the shape of y, channels
\* included (torch.ones_like(y)).
A_adjointOnesLike(y) ==
    LET shape == ShapeOfTensor(y) IN
    << y, Ones(shape[1], shape[2], shape[3], shape[4]), One >>

(* Haze.A_adjoint, lines 19-23. *)
A_adjoint(y) ==
    LET shape == ShapeOfTensor(y) IN
    << y, Ones(shape[1], 1, shape[3], shape[4]), One >>

---------------------------------------------------------------------------
(* The inputs of the Haze operator. *)

Betas == {0, F16(1, -1), F16(1, 0), F16(1, 1)}
\* 0, 1229/4096 (0.3 in float16), 0.5, 1434/2048 (0.7 in float16), 1
PixelValues == <<0, F16(1229, -12), F16(1, -1), F16(1434, -11), F16(1, 0)>>
DepthValues == <<0, F16(1, 0), F16(1, 2), F16(9, 1)>>

HazeShapes ==
    {s \in (1..MaxDim) \X (1..MaxDim) \X (1..MaxDim) \X (1..MaxDim) :
        s[1] * s[2] * s[3] * s[4] <= MaxPixels}

\* The tensor of a shape whose elements run through `values` from the p-th on.
Pattern(shape, values, p) ==
    [b \in 0..(shape[1]-1) |-> [c \in 0..(shape[2]-1) |->
        [h \in 0..(shape[3]-1) |-> [w \in 0..(shape[4]-1) |->
            values[((p + b + 2 * c + 3 * h + 5 * w) % Len(values)) + 1]]]]]

Images(shape) == {Pattern(shape, PixelValues, p) : p \in 0..(Len(PixelValues) - 1)}
Depths(shape) ==
    {Pattern(<<shape[1], 1, shape[3], shape[4]>>, DepthValues, p) :
        p \in 0..(Len(DepthValues) - 1)}
\* The atmospheric light: a scalar or a tensor of the image's shape.
Scalar(v) == Pattern(<<1, 1, 1, 1>>, <<v>>, 0)
Lights(shape) ==
    {Scalar(0), Scalar(F16(1, 0)), Scalar(F16(1229, -12))}
    \cup {Pattern(shape, PixelValues, 3)}

States(shape) == Images(shape) \X Depths(shape) \X Lights(shape)

NoMRI ==
    /\ img_size = <<>>
    /\ acceleration = 0
    /\ pc = "idle"
    /\ batch_size = 0
    /\ result = NoResult
    /\ raised = NoException
    /\ reached = {}
    /\ drawn = <<>>

(* Haze.__init__, lines 6-8. *)
InitHaze ==
    /\ NoMRI
    /\ beta \in Betas
    /\ hz_pc = "idle"
    /\ hz_arg = <<>>
    /\ hz_ret = <<>>
    /\ a_called = FALSE

CallA ==
    /\ hz_pc = "idle"
    /\ \E shape \in HazeShapes : \E x \in States(shape) :
        /\ hz_arg' = x
        /\ hz_ret' = A(beta, x)
    /\ hz_pc' = "A"
    /\ a_called' = TRUE
    /\ UNCHANGED <<beta, mri_vars>>

CallA_adjoint ==
    /\ hz_pc = "idle"
    /\ \E shape \in HazeShapes : \E y \in Images(shape) :
        /\ hz_arg' = y
        /\ hz_ret' = A_adjoint(y)
    /\ hz_pc' = "A_adjoint"
    /\ UNCHANGED <<beta, a_called, mri_vars>>

(* The caller takes what the call returned; the operator keeps only beta. *)
TakeResult ==
    /\ hz_pc # "idle"
    /\ hz_pc' = "idle"
    /\ hz_arg' = <<>>
    /\ hz_ret' = <<>>
    /\ UNCHANGED <<beta, a_called, mri_vars>>

NextHaze == CallA \/ CallA_adjoint \/ TakeResult

SpecHaze == InitHaze /\ [][NextHaze]_vars

---------------------------------------------------------------------------
(* Notions the properties of the mask generator are stated with. *)

Shape == ShapeOf(img_size)
Mask == result["mask"]

\* num_lines_side // 2, the number of random lines per batch element.
NumRandom == NumLinesSide(acceleration, Shape.W) \div 2

\* A configuration the generator supports and on which the draw is feasible.
Supported ==
    /\ Shape.ok
    /\ acceleration \in {4, 8}
    /\ NumRandom <= Shape.H

\* The 50 indices evenly spaced from H//2 - n//2 to H//2 + n//2 + 1, truncated,
\* with n = floor(central_lines_percent * W).
CenterBand ==
    LET n == (CentralLinesPermille(acceleration) * Shape.W) \div 1000
        a == Shape.H \div 2 - n \div 2
        b == Shape.H \div 2 + n \div 2 + 1
    IN {Trunc(49 * a + (b - a) * j, 49) : j \in 0..49}

Batch == 0..(batch_size - 1)
Chan == 0..(Shape.C - 1)
Rows == 0..(Shape.H - 1)
Cols == 0..(Shape.W - 1)

HasShape(t, B, C, H, W) ==
    /\ DOMAIN t = 0..(B-1)
    /\ \A b \in DOMAIN t :
        /\ DOMAIN t[b] = 0..(C-1)
        /\ \A c \in DOMAIN t[b] :
            /\ DOMAIN t[b][c] = 0..(H-1)
            /\ \A h \in DOMAIN t[b][c] : DOMAIN t[b][c][h] = 0..(W-1)

\* Column w of batch element b, channel c, is entirely v.
ColumnIs(b, c, w, v) == \A h \in Rows : Mask[b][c][h][w] = v
\* Row h of batch element b, channel c, is entirely v.
RowIs(b, c, h, v) == \A w \in Cols : Mask[b][c][h][w] = v

\* The lines (columns) of batch element b that are entirely 1.
SampledLines(b) == {w \in Cols : \A c \in Chan : ColumnIs(b, c, w, 1)}

---------------------------------------------------------------------------
(* C1: for every supported configuration and batch_size >= 1, step returns *)
(* a mapping whose only key is "mask", holding a tensor of shape           *)
(* (batch_size, C, H, W) with entries in {0, 1} and identical channels.    *)
C1_StepReturnsMask ==
    (pc # "idle" /\ Supported) =>
        /\ pc = "returned"
        /\ DOMAIN result = {"mask"}
        /\ HasShape(Mask, batch_size, Shape.C, Shape.H, Shape.W)
        /\ \A b \in Batch, c \in Chan, h \in Rows, w \in Cols :
            /\ Mask[b][c][h][w] \in {0, 1}
            /\ Mask[b][c][h][w] = Mask[b][0][h][w]

(* Supplement to C1: whenever step does return, what it returns has the   *)
(* form C1 describes.                                                      *)
ReturnedMaskForm ==
    pc = "returned" =>
        /\ DOMAIN result = {"mask"}
        /\ HasShape(Mask, batch_size, Shape.C, Shape.H, Shape.W)
        /\ \A b \in Batch, c \in Chan, h \in Rows, w \in Cols :
            /\ Mask[b][c][h][w] \in {0, 1}
            /\ Mask[b][c][h][w] = Mask[b][0][h][w]

(* C2 as stated: in every returned mask each row (fixed H index, all W    *)
(* positions) is entirely 1 or entirely 0.                                 *)
C2_RowsUniform ==
    pc = "returned" =>
        \A b \in Batch, c \in Chan, h \in Rows : RowIs(b, c, h, 1) \/ RowIs(b, c, h, 0)

(* C2 amended: in every returned mask each column (fixed W index, all H   *)
(* positions) is entirely 1 or entirely 0, and every center index and      *)
(* every random index drawn from [0, H) selects a column: a position on    *)
(* the W axis, which is entirely 1 in the batch elements it is written to. *)
C2_ColumnsUniform ==
    pc = "returned" =>
        /\ \A b \in Batch, c \in Chan, w \in Cols :
            ColumnIs(b, c, w, 1) \/ ColumnIs(b, c, w, 0)
        /\ \A b \in Batch, c \in Chan :
            /\ \A i \in CenterBand : i \in Cols /\ ColumnIs(b, c, i, 1)
            /\ \A i \in Range(drawn[b + 1]) :
                i \in Rows /\ i \in Cols /\ ColumnIs(b, c, i, 1)

C2_Witness ==
    /\ pc = "returned"
    /\ img_size = <<3, 24>>
    /\ batch_size = 2
    /\ Range(drawn[1]) = {0, 2}
    /\ ColumnIs(0, 0, 0, 1) /\ ColumnIs(0, 0, 3, 0)
    /\ ~RowIs(0, 0, 0, 1) /\ ~RowIs(0, 0, 0, 0)

(* C3: with an acceleration other than 4 or 8, step fails with a          *)
(* configuration error that the generator raises, before the mask         *)
(* computation is reached with the density parameters undefined.           *)
C3_UnsupportedAccelerationRejected ==
    (pc # "idle" /\ Shape.ok /\ acceleration \notin {4, 8}) =>
        /\ pc = "raised"
        /\ raised.by = "generator"
        /\ "zeros" \notin reached
        /\ result = NoResult

(* C4: with an img_size of a length other than 2 or 3, step fails with    *)
(* the generator's configuration error before any density parameter is    *)
(* computed, any mask allocated or any random number drawn, and returns   *)
(* no mask.                                                                *)
C4_BadImgSizeRejected ==
    (pc # "idle" /\ Len(img_size) \notin {2, 3}) =>
        /\ pc = "raised"
        /\ raised = [type |-> "ValueError", by |-> "generator"]
        /\ reached = {}
        /\ drawn = <<>>
        /\ result = NoResult

C4_Witness ==
    /\ pc = "raised"
    /\ img_size = <<1, 2, 16, 16>>
    /\ acceleration = 4
    /\ batch_size = 2

(* C5: for acceleration 4 or 8, every returned mask is 1, in every batch  *)
(* element and channel, on every line of the center band, which depends   *)
(* on the configuration alone.                                             *)
C5_CenterBandSet ==
    (pc = "returned" /\ acceleration \in {4, 8}) =>
        \A i \in CenterBand :
            /\ i \in Cols
            /\ \A b \in Batch, c \in Chan : ColumnIs(b, c, i, 1)

C5_Witness ==
    /\ pc = "returned"
    /\ img_size = <<16, 16>>
    /\ acceleration = 4
    /\ batch_size = 2
    /\ CenterBand = {8, 9}
    /\ Range(drawn[1]) = {0}
    /\ Range(drawn[2]) = {15}

(* C8: when num_lines_side // 2 > H, step fails with an error raised by   *)
(* the generator itself, not by the sampling library, and returns no mask. *)
C8_InfeasibleDrawRejected ==
    (pc # "idle" /\ Shape.ok /\ acceleration \in {4, 8} /\ NumRandom > Shape.H) =>
        /\ pc = "raised"
        /\ raised.by = "generator"
        /\ result = NoResult

(* C9: in a returned mask the lines equal to 1 in batch element i are     *)
(* exactly CenterBand united with S_i, the num_lines_side // 2 pairwise   *)
(* distinct indices of [0, H) drawn for i; their number lies between      *)
(* max(|CenterBand|, num_lines_side // 2) and                              *)
(* |CenterBand| + num_lines_side // 2, and every other line is entirely 0. *)
C9_LinesAreCenterPlusOwnDraw ==
    (pc = "returned" /\ acceleration \in {4, 8}) =>
        /\ Len(drawn) = batch_size
        /\ \A b \in Batch :
            LET S == Range(drawn[b + 1]) IN
            /\ Len(drawn[b + 1]) = NumRandom
            /\ Cardinality(S) = NumRandom
            /\ S \subseteq Rows
            /\ SampledLines(b) = CenterBand \cup S
            /\ Cardinality(SampledLines(b)) >= Cardinality(CenterBand)
            /\ Cardinality(SampledLines(b)) >= NumRandom
            /\ Cardinality(SampledLines(b)) <= Cardinality(CenterBand) + NumRandom
            /\ \A c \in Chan, w \in Cols \ SampledLines(b) : ColumnIs(b, c, w, 0)

C9_Witness ==
    /\ pc = "returned"
    /\ img_size = <<3, 24>>
    /\ acceleration = 4
    /\ batch_size = 2
    /\ Range(drawn[1]) = {0, 1}
    /\ Range(drawn[2]) = {0, 2}
    /\ SampledLines(0) = {0, 1, 2}
    /\ SampledLines(1) = {0, 1, 2}

(* C10: on every supported configuration every index step writes to is a  *)
(* valid index of the axis it is applied to, so step never fails with an  *)
(* index-out-of-range error.                                               *)
C10_NoIndexError ==
    (pc # "idle" /\ Supported) => raised.type # "IndexError"

---------------------------------------------------------------------------
(* Notions the properties of the Haze operator are stated with. *)

\* The positions of the image passed to the last call of A.
Pixels ==
    {<<b, c, h, w>> : b \in DOMAIN hz_arg[1], c \in DOMAIN hz_arg[1][0],
                      h \in DOMAIN hz_arg[1][0][0], w \in DOMAIN hz_arg[1][0][0][0]}

ImageAt(q) == hz_arg[1][q[1]][q[2]][q[3]][q[4]]
DepthAt(q) == At(hz_arg[2], q[1], q[2], q[3], q[4])
LightAt(q) == At(hz_arg[3], q[1], q[2], q[3], q[4])
OutputAt(q) == hz_ret[q[1]][q[2]][q[3]][q[4]]
\* exp(-beta * depth) as the float16 arithmetic gives it.
TAt(q) == ExpF16(MulF16(-beta, DepthAt(q)))

Min(a, b) == IF a <= b THEN a ELSE b
Max(a, b) == IF a >= b THEN a ELSE b

\* How far v lies outside the interval between a and b.
Outside(v, a, b) ==
    IF v < Min(a, b) THEN Min(a, b) - v
    ELSE IF v > Max(a, b) THEN v - Max(a, b)
    ELSE 0

\* The unit in the last place of a float16 of magnitude m.
Ulp(m) == IF m = 0 THEN 1 ELSE Pow2(Spacing(FloorLog2(m)))

(* C6: A_adjoint(y) returns the triple (y, ones of shape (B, 1, H, W),    *)
(* 1.0); the last two depend on the shape of y alone, not on its contents, *)
(* on beta or on an earlier call to A.                                     *)
C6_AdjointSeed ==
    hz_pc = "A_adjoint" =>
        LET B == Cardinality(DOMAIN hz_arg)
            H == Cardinality(DOMAIN hz_arg[0][0])
            W == Cardinality(DOMAIN hz_arg[0][0][0])
        IN /\ Len(hz_ret) = 3
           /\ hz_ret[1] = hz_arg
           /\ hz_ret[2] =
                [b \in 0..(B-1) |-> [c \in {0} |->
                    [h \in 0..(H-1) |-> [w \in 0..(W-1) |-> F16(1, 0)]]]]
           /\ hz_ret[3] = F16(1, 0)

C6_Witness ==
    /\ hz_pc = "A_adjoint"
    /\ a_called
    /\ beta = F16(1, 1)
    /\ ShapeOfTensor(hz_arg) = <<2, 2, 1, 2>>
    /\ hz_arg[0][0][0][0] # hz_arg[1][1][0][1]
    /\ ShapeOfTensor(hz_ret[2]) = <<2, 1, 1, 2>>

(* C7 as stated: with depth >= 0 and beta >= 0, at every pixel the        *)
(* transmittance t = exp(-beta*depth) satisfies 0 < t <= 1 and the output  *)
(* of A lies between image and atmospheric_light inclusive; with beta = 0  *)
(* the output equals image.                                                *)
C7_ConvexBlend ==
    hz_pc = "A" =>
        \A q \in Pixels :
            /\ 0 < TAt(q) /\ TAt(q) <= F16(1, 0)
            /\ Outside(OutputAt(q), ImageAt(q), LightAt(q)) = 0
            /\ beta = 0 => OutputAt(q) = ImageAt(q)

(* C7 amended: the transmittance satisfies 0 <= t <= 1 (it is 0 once      *)
(* exp underflows); the output is image where t = 1, in particular        *)
(* everywhere when beta = 0, and atmospheric_light where t = 0; elsewhere  *)
(* it lies between image and atmospheric_light up to rounding, within 4   *)
(* units in the last place of the larger of their magnitudes (values      *)
(* finite, no overflow).                                                   *)
C7_RoundedBlend ==
    hz_pc = "A" =>
        /\ ShapeOfTensor(hz_ret) = ShapeOfTensor(hz_arg[1])
        /\ \A q \in Pixels :
            /\ 0 <= TAt(q) /\ TAt(q) <= F16(1, 0)
            /\ TAt(q) = F16(1, 0) => OutputAt(q) = ImageAt(q)
            /\ TAt(q) = 0 => OutputAt(q) = LightAt(q)
            /\ beta = 0 => TAt(q) = F16(1, 0) /\ OutputAt(q) = ImageAt(q)
            /\ DepthAt(q) = 0 => OutputAt(q) = ImageAt(q)
            /\ Outside(OutputAt(q), ImageAt(q), LightAt(q))
                 <= 4 * Ulp(Max(Abs(ImageAt(q)), Abs(LightAt(q))))

C7_Witness ==
    /\ hz_pc = "A"
    /\ beta = F16(1, 0)
    /\ ShapeOfTensor(hz_arg[1]) = <<1, 2, 1, 1>>
    /\ DepthAt(<<0, 0, 0, 0>>) = F16(1, 2)
    /\ ImageAt(<<0, 0, 0, 0>>) = F16(1229, -12)
    /\ LightAt(<<0, 0, 0, 0>>) = F16(1229, -12)
    /\ OutputAt(<<0, 0, 0, 0>>) = F16(1228, -12)
    /\ TAt(<<0, 1, 0, 0>>) = TAt(<<0, 0, 0, 0>>)

=============================================================================
